---- MODULE Spec2Model ----
(***************************************************************************)
(* A model of LruCache<K, V> (src/src/lrucache/LruCache.ts): an ES6 Map    *)
(* from keys to LruCacheNode objects, the nodes forming a doubly linked    *)
(* list between two dummy nodes, head and tail.  The heap of node objects  *)
(* is the function `nodes`; a reference to a node is a string, and the JS  *)
(* value undefined is the string "undefined" wherever it can occur (a key, *)
(* a value, a link, a return value).                                       *)
(***************************************************************************)
EXTENDS Integers, Sequences, FiniteSets, TLC

\* Largest capacity a cache is constructed with.
MaxCapacity == 3

\* JS undefined and null.
Undefined == "undefined"
Null == "null"

\* The keys and values callers pass; undefined and null are among them.
Keys == {Undefined, Null, "a", "b", "c"}
Values == {Undefined, Null, "v1"}

\* No exception has been thrown.
NoError == "none"
\* The messages of the five `throw new Error(...)` statements.
ErrCapacity == "capacity must be an integer greater than or equal to one"
ErrUnlink == "The Head or Tail nodes should not get unlinked."
ErrHeadNext == "Head node must always have a next node attached to it."
ErrTailPrevious == "Tail node must always have a previous node attached to it."
ErrKey == "undefined is not a valid entry key."
ErrNotAdded == "could not discard the least recently used element."
\* The TypeError of a for-of loop over an object without an iterator.
ErrNotIterable == "TypeError: lruCache is not iterable"

(***************************************************************************)
(* JS numbers, as far as the constructor tells them apart: the integers,   *)
(* the numbers halfway between two integers, NaN, the two infinities, and  *)
(* undefined for an argument that is missing.                              *)
(***************************************************************************)
Integer(n) == [kind |-> "integer", n |-> n]
Half(n) == [kind |-> "half", n |-> n]          \* n + 0.5
NaN == [kind |-> "NaN", n |-> 0]
Infinity == [kind |-> "Infinity", n |-> 1]
NegativeInfinity == [kind |-> "Infinity", n |-> -1]
Missing == [kind |-> "undefined", n |-> 0]

\* The arguments a caller constructs a cache with.
Numbers ==
    {Integer(n) : n \in -1..MaxCapacity} \cup {Half(n) : n \in -1..MaxCapacity}
    \cup {NaN, Infinity, NegativeInfinity, Missing}

\* x < m in JS, for an integer m: undefined converts to NaN, and every
\* comparison with NaN is false.
LessThan(x, m) ==
    CASE x.kind = "integer" -> x.n < m
      [] x.kind = "half" -> x.n < m
      [] x.kind = "Infinity" -> x.n < 0
      [] OTHER -> FALSE

\* Number.isInteger(x)
IsInteger(x) ==
    x.kind = "integer"

\* this.head and this.tail: readonly references to the two dummy nodes.
head == "head"
tail == "tail"

VARIABLES
    nodes,      \* the heap: reference -> LruCacheNode object
    accessMap,  \* this.accessMap: key -> reference of the node holding it
    capacity,   \* this.capacity
    call,       \* the last public call: [op, key, value]
    ret,        \* what the last call returned (undefined for void)
    err,        \* the error the last call threw, or NoError
    lastUse,    \* present key -> rank of the time of its last use (1 = oldest)
    pre,        \* the state the last call started in; when the caller made
                \* two calls back to back, also the first call and its outcome
    twin,       \* in ResetSpec: a second cache, constructed when the first
                \* reset() was called and given every call made since
    since,      \* in NullSpec: once the key null has been used, null and the
                \* keys a put has stored since the last use of null
    given,      \* the argument `new LruCache(...)` is called with: a JS number
    puts,       \* in PutsSpec: the keys put since the construction, in order
    origin,     \* in InverseSpec: when the caller has made put(k, v);
                \* delete(k), the state the put started in
    running,    \* in RaceSpec: where each of two callers is in the call it
                \* is making, and whether no two calls have overlapped so far
    cost        \* in StepSpec: the method last called, the size it found and
                \* the number of statements it has run since

vars ==
    <<nodes, accessMap, capacity, call, ret, err, lastUse, pre, twin, since, given, puts,
      origin, running, cost>>

(***************************************************************************)
(* The node class.                                                         *)
(***************************************************************************)

\* new LruCacheNode(key, value): both links unset.
LruCacheNode(key, value) ==
    [key |-> key, value |-> value, previous |-> Undefined, next |-> Undefined]

\* A reference for a newly allocated object: one no live object has.
NewRef(heap, key) ==
    LET free == {i \in 1..(MaxCapacity + 2) :
                    (key \o "#" \o ToString(i)) \notin DOMAIN heap}
        i == CHOOSE j \in free : \A m \in free : j <= m
    IN  key \o "#" \o ToString(i)

\* The references reachable from a set of references through the links.
RECURSIVE Closure(_, _)
Closure(heap, R) ==
    LET N == (R \cup {heap[r].previous : r \in R} \cup {heap[r].next : r \in R})
             \ {Undefined}
    IN  IF N = R THEN R ELSE Closure(heap, N)

\* The objects the cache can still reach; the runtime collects the rest.
Live(s) ==
    Closure(s.nodes, {head, tail} \cup {s.accessMap[k] : k \in DOMAIN s.accessMap})

Collect(s) ==
    [s EXCEPT !.nodes = [r \in Live(s) |-> s.nodes[r]]]

\* throw new Error(e): the call ends here, with what it has changed so far.
Throw(s, e) ==
    [s EXCEPT !.err = e, !.ret = Undefined]

(***************************************************************************)
(* The private methods.  Each maps a machine state s = [nodes, accessMap,  *)
(* ret, err, edits] to the state after it; s.ret carries the returned      *)
(* value, s.edits counts the calls of link and unlink made so far.         *)
(***************************************************************************)

\* initListLinks without the second assignment.
initListLinks_HeadOnly(s) ==
    [s EXCEPT !.nodes = [s.nodes EXCEPT ![head].next = tail]]

initListLinks(s) ==
    LET n1 == [s.nodes EXCEPT ![head].next = tail]
        n2 == [n1 EXCEPT ![tail].previous = head]
    IN  [s EXCEPT !.nodes = n2]

size(s) ==
    Cardinality(DOMAIN s.accessMap)

isEmpty(s) ==
    size(s) = 0

firstNode(s) ==
    IF isEmpty(s) THEN Undefined ELSE s.nodes[head].next

lastNode(s) ==
    IF isEmpty(s) THEN Undefined ELSE s.nodes[tail].previous

\* link without the successor's back pointer.
link_OneWay(s, newNode, predecessor, successor) ==
    LET n1 == [s.nodes EXCEPT ![newNode].previous = predecessor]
        n2 == [n1 EXCEPT ![newNode].next = successor]
        n3 == [n2 EXCEPT ![predecessor].next = newNode]
    IN  [s EXCEPT !.nodes = n3, !.edits = @ + 1]

link(s, newNode, predecessor, successor) ==
    LET n1 == [s.nodes EXCEPT ![newNode].previous = predecessor]
        n2 == [n1 EXCEPT ![newNode].next = successor]
        n3 == [n2 EXCEPT ![predecessor].next = newNode]
        n4 == [n3 EXCEPT ![successor].previous = newNode]
    IN  [s EXCEPT !.nodes = n4, !.edits = @ + 1]

\* unlink setting the predecessor's pointer only.
unlink_OneWay(s, node) ==
    LET predecessor == s.nodes[node].previous
        successor == s.nodes[node].next
    IN  IF predecessor = Undefined \/ successor = Undefined
        THEN Throw([s EXCEPT !.edits = @ + 1], ErrUnlink)
        ELSE [s EXCEPT !.nodes = [s.nodes EXCEPT ![predecessor].next = successor],
                       !.ret = node, !.edits = @ + 1]

unlink(s, node) ==
    LET predecessor == s.nodes[node].previous
        successor == s.nodes[node].next
    IN  IF predecessor = Undefined \/ successor = Undefined
        THEN Throw([s EXCEPT !.edits = @ + 1], ErrUnlink)
        ELSE LET n1 == [s.nodes EXCEPT ![predecessor].next = successor]
                 n2 == [n1 EXCEPT ![successor].previous = predecessor]
             IN  [s EXCEPT !.nodes = n2, !.ret = node, !.edits = @ + 1]

\* linkToHead linking the node before tail, as linkToTail does.
linkToHead_ToTail(s, newNode) ==
    IF s.nodes[tail].previous = Undefined
    THEN Throw(s, ErrTailPrevious)
    ELSE link(s, newNode, s.nodes[tail].previous, tail)

linkToHead(s, newNode) ==
    IF s.nodes[head].next = Undefined
    THEN Throw(s, ErrHeadNext)
    ELSE link(s, newNode, head, s.nodes[head].next)

\* unlinkFromTail returning the node before tail without unlinking it.
unlinkFromTail_Peek(s) ==
    IF s.nodes[tail].previous = Undefined
    THEN Throw(s, ErrTailPrevious)
    ELSE IF isEmpty(s)
         THEN [s EXCEPT !.ret = Undefined]
         ELSE [s EXCEPT !.ret = s.nodes[tail].previous]

\* unlinkFromTail taking the node after head, as unlinkFromHead does.
unlinkFromTail_FromHead(s) ==
    IF s.nodes[tail].previous = Undefined
    THEN Throw(s, ErrTailPrevious)
    ELSE IF isEmpty(s)
         THEN [s EXCEPT !.ret = Undefined]
         ELSE unlink(s, s.nodes[head].next)

unlinkFromTail(s) ==
    IF s.nodes[tail].previous = Undefined
    THEN Throw(s, ErrTailPrevious)
    ELSE IF isEmpty(s)
         THEN [s EXCEPT !.ret = Undefined]
         ELSE unlink(s, s.nodes[tail].previous)

\* moveNodeToHead moving the node before tail, whatever the node given.
moveNodeToHead_Last(s, node) ==
    IF firstNode(s) # node
    THEN LET s1 == unlink(s, s.nodes[tail].previous)
             s2 == linkToHead(s1, s1.ret)
         IN  IF s1.err # NoError THEN s1
             ELSE IF s2.err # NoError THEN s2
             ELSE [s2 EXCEPT !.ret = node]
    ELSE [s EXCEPT !.ret = node]

\* moveNodeToHead without the firstNode test: the first node is unlinked and
\* linked again where it was.
moveNodeToHead_Always(s, node) ==
    LET s1 == unlink(s, node)
        s2 == linkToHead(s1, node)
    IN  IF s1.err # NoError THEN s1
        ELSE IF s2.err # NoError THEN s2
        ELSE [s2 EXCEPT !.ret = node]

\* moveNodeToHead leaving the node where it is.
moveNodeToHead_Stay(s, node) ==
    [s EXCEPT !.ret = node]

moveNodeToHead(s, node) ==
    IF firstNode(s) # node
    THEN LET s1 == unlink(s, node)
             s2 == linkToHead(s1, node)
         IN  IF s1.err # NoError THEN s1
             ELSE IF s2.err # NoError THEN s2
             ELSE [s2 EXCEPT !.ret = node]
    ELSE [s EXCEPT !.ret = node]

\* discardLeastRecentlyUsed testing `nodeTobeRemoved.key` for truthiness: a
\* null key fails the test.
discardLeastRecentlyUsed_TruthyKey(s) ==
    LET s1 == unlinkFromTail(s)
        nodeTobeRemoved == s1.ret
    IN  IF s1.err # NoError THEN s1
        ELSE IF nodeTobeRemoved = Undefined THEN [s1 EXCEPT !.ret = FALSE]
        ELSE IF s1.nodes[nodeTobeRemoved].key \in {Undefined, Null}
             THEN [s1 EXCEPT !.ret = FALSE]
        ELSE LET key == s1.nodes[nodeTobeRemoved].key
             IN  [s1 EXCEPT
                    !.accessMap = [k \in DOMAIN s1.accessMap \ {key} |-> s1.accessMap[k]],
                    !.ret = (key \in DOMAIN s1.accessMap)]

\* discardLeastRecentlyUsed without the Access Map deletion.
discardLeastRecentlyUsed_KeepEntry(s) ==
    LET s1 == unlinkFromTail(s)
        nodeTobeRemoved == s1.ret
    IN  IF s1.err # NoError THEN s1
        ELSE [s1 EXCEPT !.ret = (nodeTobeRemoved # Undefined
                                 /\ s1.nodes[nodeTobeRemoved].key # Undefined)]

discardLeastRecentlyUsed(s) ==
    LET s1 == unlinkFromTail(s)
        nodeTobeRemoved == s1.ret
    IN  IF s1.err # NoError THEN s1
        ELSE IF nodeTobeRemoved = Undefined THEN [s1 EXCEPT !.ret = FALSE]
        ELSE IF s1.nodes[nodeTobeRemoved].key = Undefined
             THEN [s1 EXCEPT !.ret = FALSE]
        ELSE LET key == s1.nodes[nodeTobeRemoved].key
             IN  [s1 EXCEPT
                    !.accessMap = [k \in DOMAIN s1.accessMap \ {key} |-> s1.accessMap[k]],
                    !.ret = (key \in DOMAIN s1.accessMap)]

(***************************************************************************)
(* The public methods.                                                     *)
(***************************************************************************)

\* reset without initListLinks: the old nodes stay between head and tail.
reset_KeepLinks(s) ==
    LET s1 == [s EXCEPT !.accessMap = <<>>]
    IN  [s1 EXCEPT !.ret = Undefined]

\* reset setting head.next only: tail.previous keeps the old last node.
reset_HeadOnly(s) ==
    LET s1 == [s EXCEPT !.accessMap = <<>>]
        s2 == [s1 EXCEPT !.nodes[head].next = tail]
    IN  [s2 EXCEPT !.ret = Undefined]

\* reset without the new Map: only the list links are set again.
reset_KeepMap(s) ==
    LET s2 == initListLinks(s)
    IN  [s2 EXCEPT !.ret = Undefined]

reset(s) ==
    LET s1 == [s EXCEPT !.accessMap = <<>>]
        s2 == initListLinks(s1)
    IN  [s2 EXCEPT !.ret = Undefined]

\* put, the key is in the Access Map: the `if` branch.
updateEntry(s, key, value) ==
    LET node == s.accessMap[key]
        s1 == [s EXCEPT !.nodes[node].value = value]
        s2 == moveNodeToHead(s1, node)
    IN  IF s2.err # NoError THEN s2 ELSE [s2 EXCEPT !.ret = Undefined]

\* insertEntry without the discard: the node is added whatever the size.
insertEntry_NoDiscard(s, cap, key, value) ==
    LET newNode == NewRef(s.nodes, key)
        s1 == [s EXCEPT !.nodes = (newNode :> LruCacheNode(key, value)) @@ s.nodes]
        s3 == [s1 EXCEPT !.accessMap = (key :> newNode) @@ s1.accessMap]
        s4 == linkToHead(s3, newNode)
    IN  IF s4.err # NoError THEN s4
        ELSE [s4 EXCEPT !.ret = Undefined]

\* insertEntry discarding one entry too early: size + 1 < capacity.
insertEntry_OffByOne(s, cap, key, value) ==
    LET newNode == NewRef(s.nodes, key)
        s1 == [s EXCEPT !.nodes = (newNode :> LruCacheNode(key, value)) @@ s.nodes]
        s2 == IF size(s1) + 1 < cap
              THEN [s1 EXCEPT !.ret = TRUE]
              ELSE discardLeastRecentlyUsed(s1)
        s3 == [s2 EXCEPT !.accessMap = (key :> newNode) @@ s2.accessMap]
        s4 == linkToHead(s3, newNode)
    IN  IF s2.err # NoError THEN s2
        ELSE IF s2.ret = FALSE THEN Throw(s2, ErrNotAdded)
        ELSE IF s4.err # NoError THEN s4
        ELSE [s4 EXCEPT !.ret = Undefined]

\* put, the key is not in the Access Map: the `else` branch.
insertEntry(s, cap, key, value) ==
    LET newNode == NewRef(s.nodes, key)
        s1 == [s EXCEPT !.nodes = (newNode :> LruCacheNode(key, value)) @@ s.nodes]
        s2 == IF size(s1) < cap
              THEN [s1 EXCEPT !.ret = TRUE]
              ELSE discardLeastRecentlyUsed(s1)
        s3 == [s2 EXCEPT !.accessMap = (key :> newNode) @@ s2.accessMap]
        s4 == linkToHead(s3, newNode)
    IN  IF s2.err # NoError THEN s2
        ELSE IF s2.ret = FALSE THEN Throw(s2, ErrNotAdded)
        ELSE IF s4.err # NoError THEN s4
        ELSE [s4 EXCEPT !.ret = Undefined]

\* put without the `key === undefined` throw: the key undefined is stored.
put_NoKeyTest(s, cap, key, value) ==
    IF value = Undefined THEN [s EXCEPT !.ret = Undefined]
    ELSE IF key \in DOMAIN s.accessMap THEN updateEntry(s, key, value)
    ELSE insertEntry(s, cap, key, value)

\* put testing `key == undefined`, which null passes too.
put_LooseKeyTest(s, cap, key, value) ==
    IF key \in {Undefined, Null} THEN Throw(s, ErrKey)
    ELSE IF value = Undefined THEN [s EXCEPT !.ret = Undefined]
    ELSE IF key \in DOMAIN s.accessMap THEN updateEntry(s, key, value)
    ELSE insertEntry(s, cap, key, value)

\* put with the `value === undefined` return in the `else` branch only: an
\* update stores undefined.
put_UpdateUndefined(s, cap, key, value) ==
    IF key = Undefined THEN Throw(s, ErrKey)
    ELSE IF key \in DOMAIN s.accessMap THEN updateEntry(s, key, value)
    ELSE IF value = Undefined THEN [s EXCEPT !.ret = Undefined]
    ELSE insertEntry(s, cap, key, value)

\* put without the `value === undefined` return: undefined is stored.
put_StoreUndefined(s, cap, key, value) ==
    IF key = Undefined THEN Throw(s, ErrKey)
    ELSE IF key \in DOMAIN s.accessMap THEN updateEntry(s, key, value)
    ELSE insertEntry(s, cap, key, value)

\* put testing the value before the key: put(undefined, undefined) returns.
put_ValueFirst(s, cap, key, value) ==
    IF value = Undefined THEN [s EXCEPT !.ret = Undefined]
    ELSE IF key = Undefined THEN Throw(s, ErrKey)
    ELSE IF key \in DOMAIN s.accessMap THEN updateEntry(s, key, value)
    ELSE insertEntry(s, cap, key, value)

\* put without the accessMap.has(key) test: every put inserts.
put_AlwaysInsert(s, cap, key, value) ==
    IF key = Undefined THEN Throw(s, ErrKey)
    ELSE IF value = Undefined THEN [s EXCEPT !.ret = Undefined]
    ELSE insertEntry(s, cap, key, value)

put(s, cap, key, value) ==
    IF key = Undefined THEN Throw(s, ErrKey)
    ELSE IF value = Undefined THEN [s EXCEPT !.ret = Undefined]
    ELSE IF key \in DOMAIN s.accessMap THEN updateEntry(s, key, value)
    ELSE insertEntry(s, cap, key, value)

\* get returning `value ? value : undefined`: null reads as a miss.
get_Truthy(s, key) ==
    LET node == IF key \in DOMAIN s.accessMap THEN s.accessMap[key] ELSE Undefined
        s1 == moveNodeToHead(s, node)
        value == IF node # Undefined THEN s1.nodes[s1.ret].value ELSE Undefined
    IN  IF node = Undefined THEN [s EXCEPT !.ret = Undefined]
        ELSE IF s1.err # NoError THEN s1
        ELSE [s1 EXCEPT !.ret = IF value \notin {Undefined, Null} THEN value ELSE Undefined]

\* get reading node.value without moving the node.
get_NoMove(s, key) ==
    LET node == IF key \in DOMAIN s.accessMap THEN s.accessMap[key] ELSE Undefined
        value == IF node # Undefined THEN s.nodes[node].value ELSE Undefined
    IN  [s EXCEPT !.ret = IF value # Undefined THEN value ELSE Undefined]

\* get without the `node !== undefined` test: a miss dereferences undefined.
get_NoMissGuard(s, key) ==
    LET node == IF key \in DOMAIN s.accessMap THEN s.accessMap[key] ELSE Undefined
        s1 == moveNodeToHead(s, node)
        value == s1.nodes[s1.ret].value
    IN  IF node = Undefined THEN Throw(s, "TypeError: Cannot read properties of undefined")
        ELSE IF s1.err # NoError THEN s1
        ELSE [s1 EXCEPT !.ret = IF value # Undefined THEN value ELSE Undefined]

get(s, key) ==
    LET node == IF key \in DOMAIN s.accessMap THEN s.accessMap[key] ELSE Undefined
        s1 == moveNodeToHead(s, node)
        value == IF node # Undefined THEN s1.nodes[s1.ret].value ELSE Undefined
    IN  IF node = Undefined THEN [s EXCEPT !.ret = Undefined]
        ELSE IF s1.err # NoError THEN s1
        ELSE [s1 EXCEPT !.ret = IF value # Undefined THEN value ELSE Undefined]

\* delete unlinking the node before tail, whatever node holds the key.
delete_FromTail(s, key) ==
    LET node == IF key \in DOMAIN s.accessMap THEN s.accessMap[key] ELSE Undefined
        s1 == unlinkFromTail(s)
        s2 == [s1 EXCEPT !.accessMap = [k \in DOMAIN s1.accessMap \ {key} |-> s1.accessMap[k]]]
    IN  IF node = Undefined THEN [s EXCEPT !.ret = Undefined]
        ELSE IF s1.err # NoError THEN s1
        ELSE [s2 EXCEPT !.ret = s2.nodes[node].value]

\* delete without the unlink: the node stays in the list.
delete_KeepNode(s, key) ==
    LET node == IF key \in DOMAIN s.accessMap THEN s.accessMap[key] ELSE Undefined
        s2 == [s EXCEPT !.accessMap = [k \in DOMAIN s.accessMap \ {key} |-> s.accessMap[k]]]
    IN  IF node = Undefined THEN [s EXCEPT !.ret = Undefined]
        ELSE [s2 EXCEPT !.ret = s2.nodes[node].value]

\* delete without the Access Map deletion.
delete_KeepEntry(s, key) ==
    LET node == IF key \in DOMAIN s.accessMap THEN s.accessMap[key] ELSE Undefined
        s1 == unlink(s, node)
    IN  IF node = Undefined THEN [s EXCEPT !.ret = Undefined]
        ELSE IF s1.err # NoError THEN s1
        ELSE [s1 EXCEPT !.ret = s1.nodes[node].value]

\* delete without the `node !== undefined` test: a miss dereferences undefined.
delete_NoMissGuard(s, key) ==
    LET node == IF key \in DOMAIN s.accessMap THEN s.accessMap[key] ELSE Undefined
        s1 == unlink(s, node)
        s2 == [s1 EXCEPT !.accessMap = [k \in DOMAIN s1.accessMap \ {key} |-> s1.accessMap[k]]]
    IN  IF node = Undefined THEN Throw(s, "TypeError: Cannot read properties of undefined")
        ELSE IF s1.err # NoError THEN s1
        ELSE [s2 EXCEPT !.ret = s2.nodes[node].value]

delete(s, key) ==
    LET node == IF key \in DOMAIN s.accessMap THEN s.accessMap[key] ELSE Undefined
        s1 == unlink(s, node)
        s2 == [s1 EXCEPT !.accessMap = [k \in DOMAIN s1.accessMap \ {key} |-> s1.accessMap[k]]]
    IN  IF node = Undefined THEN [s EXCEPT !.ret = Undefined]
        ELSE IF s1.err # NoError THEN s1
        ELSE [s2 EXCEPT !.ret = s2.nodes[node].value]

\* The members class LruCache declares, and the member a for-of loop asks for.
Members ==
    {"head", "tail", "accessMap", "capacity", "constructor", "initListLinks",
     "firstNode", "lastNode", "link", "unlink", "linkToHead", "linkToTail",
     "unlinkFromHead", "unlinkFromTail", "moveNodeToHead",
     "discardLeastRecentlyUsed", "size", "isEmpty", "reset", "put", "get", "delete"}
SymbolIterator == "[Symbol.iterator]"

\* for (const entry of lruCache) { ... }: the loop asks the object for its
\* iterator first; an object without that member is not iterable.
forOf(s) ==
    CASE SymbolIterator \notin Members -> Throw(s, ErrNotIterable)

\* No cache object: before construction, and after a constructor that threw.
NoInstance ==
    [nodes |-> <<>>, accessMap |-> <<>>, ret |-> Undefined, err |-> NoError,
     edits |-> 0]

\* The constructor with the `capacity < 1` test only.
constructor_NoIntegerTest(cap) ==
    LET s0 == [NoInstance EXCEPT
                  !.nodes = (head :> LruCacheNode(Undefined, Undefined))
                            @@ (tail :> LruCacheNode(Undefined, Undefined))]
    IN  IF LessThan(cap, 1)
        THEN Throw(NoInstance, ErrCapacity)
        ELSE initListLinks(s0)

\* new LruCache(cap)
constructor(cap) ==
    LET s0 == [NoInstance EXCEPT
                  !.nodes = (head :> LruCacheNode(Undefined, Undefined))
                            @@ (tail :> LruCacheNode(Undefined, Undefined))]
    IN  IF LessThan(cap, 1) \/ ~IsInteger(cap)
        THEN Throw(NoInstance, ErrCapacity)
        ELSE initListLinks(s0)

(***************************************************************************)
(* The time of last use.  A use of a key is an inserting put, an updating  *)
(* put of a value other than undefined, or a get that hits.  Times are     *)
(* kept for the present keys only and as ranks, 1 the oldest.              *)
(***************************************************************************)

IsUse(c, before) ==
    \/ c.op = "put" /\ c.key # Undefined /\ c.value # Undefined
    \/ c.op = "get" /\ c.key \in DOMAIN before

Touch(c, before, old, present) ==
    LET now == Cardinality(DOMAIN old) + 1
        t == [k \in present |->
                IF IsUse(c, before) /\ k = c.key THEN now
                ELSE IF k \in DOMAIN old THEN old[k] ELSE 0]
    IN  [k \in present |-> Cardinality({j \in present : t[j] < t[k]}) + 1]

(***************************************************************************)
(* The caller: any sequence of public calls on one cache, each run to      *)
(* completion.  A caller that catches a thrown error carries on.  The      *)
(* tests' idioms of two calls back to back on one key (put then get,       *)
(* delete then get, delete then delete) are steps of their own, so that    *)
(* the first call is still known when the second returns.                  *)
(***************************************************************************)

NoCall == [key |-> Undefined, value |-> Undefined, op |-> "none"]
PutCall(key, value) == [key |-> key, value |-> value, op |-> "put"]
GetCall(key) == [key |-> key, value |-> Undefined, op |-> "get"]
DeleteCall(key) == [key |-> key, value |-> Undefined, op |-> "delete"]
ResetCall == [key |-> Undefined, value |-> Undefined, op |-> "reset"]
NewCall == [key |-> Undefined, value |-> Undefined, op |-> "new"]
ForOfCall == [key |-> Undefined, value |-> Undefined, op |-> "for-of"]

\* The cache as a call finds it.
Current ==
    [nodes |-> nodes, accessMap |-> accessMap, lastUse |-> lastUse,
     call |-> NoCall, ret |-> Undefined, err |-> NoError]

Apply(s, cap, c) ==
    CASE c.op = "put" -> put(s, cap, c.key, c.value)
      [] c.op = "get" -> get(s, c.key)
      [] c.op = "delete" -> delete(s, c.key)
      [] c.op = "reset" -> reset(s)
      [] c.op = "for-of" -> forOf(s)

\* What the caller sees when call c, started on the cache st, has ended in s.
Outcome(st, c, s) ==
    [nodes |-> Collect(s).nodes, accessMap |-> s.accessMap,
     lastUse |-> Touch(c, st.accessMap, st.lastUse, DOMAIN s.accessMap),
     call |-> c, ret |-> s.ret, err |-> s.err]

\* The cache st as a method called on it finds it.
Machine(st) ==
    [nodes |-> st.nodes, accessMap |-> st.accessMap, ret |-> Undefined,
     err |-> NoError, edits |-> 0]

\* One call, run to its return or throw, on the cache st.
Step(st, cap, c) ==
    Outcome(st, c, Apply(Machine(st), cap, c))

\* A reset() that also sets the capacity anew, to 1.
Observe_ResetCapacity(from, to) ==
    /\ nodes' = to.nodes
    /\ accessMap' = to.accessMap
    /\ lastUse' = to.lastUse
    /\ call' = to.call
    /\ ret' = to.ret
    /\ err' = to.err
    /\ pre' = from
    /\ capacity' = IF to.call.op = "reset" THEN 1 ELSE capacity
    /\ UNCHANGED given

\* The last call ran from `from` to `to`.
Observe(from, to) ==
    /\ nodes' = to.nodes
    /\ accessMap' = to.accessMap
    /\ lastUse' = to.lastUse
    /\ call' = to.call
    /\ ret' = to.ret
    /\ err' = to.err
    /\ pre' = from
    /\ UNCHANGED <<capacity, given>>

\* ... and the caller keeps no second cache.
Return(from, to) ==
    Observe(from, to) /\ UNCHANGED <<twin, since, puts, origin, running, cost>>

\* new LruCache(cap), as the caller finds it.
New(cap) ==
    [nodes |-> constructor(cap).nodes, accessMap |-> constructor(cap).accessMap,
     lastUse |-> <<>>, call |-> NoCall, ret |-> Undefined, err |-> constructor(cap).err]

\* No second cache yet.
NoTwin == [st |-> New(Integer(1)), on |-> FALSE]

\* No put and delete back to back just made.
NoOrigin == [st |-> New(Integer(1)), on |-> FALSE]

\* The two callers of RaceSpec, and a caller that is in no call.
Callers == {1, 2}
Idle == [key |-> Undefined, value |-> Undefined, node |-> Undefined, pc |-> "idle",
         removed |-> Undefined]
NoneRunning == [serial |-> TRUE, by |-> [t \in Callers |-> Idle]]

\* No statements counted.
NoCost == [on |-> FALSE, op |-> "none", size |-> 0, steps |-> 0]

Init ==
    \E cap \in Numbers :
        LET s == constructor(cap)
        IN  /\ s.err = NoError
            /\ nodes = s.nodes
            /\ accessMap = s.accessMap
            /\ capacity = cap.n
            /\ given = cap
            /\ call = NoCall
            /\ ret = Undefined
            /\ err = NoError
            /\ lastUse = <<>>
            /\ pre = [nodes |-> s.nodes, accessMap |-> s.accessMap, lastUse |-> <<>>,
                      call |-> NoCall, ret |-> Undefined, err |-> NoError]
            /\ twin = NoTwin
            /\ since = {}
            /\ puts = <<>>
            /\ origin = NoOrigin
            /\ running = NoneRunning
            /\ cost = NoCost

\* lruCache.put(key, value)
Put(key, value) ==
    \E to \in {Step(Current, capacity, PutCall(key, value))} : Return(Current, to)

\* lruCache.get(key)
Get(key) ==
    \E to \in {Step(Current, capacity, GetCall(key))} : Return(Current, to)

\* lruCache.delete(key)
Delete(key) ==
    \E to \in {Step(Current, capacity, DeleteCall(key))} : Return(Current, to)

\* lruCache.reset()
Reset ==
    \E to \in {Step(Current, capacity, ResetCall)} : Return(Current, to)

\* lruCache.put(key, value); lruCache.get(key)
PutGet(key, value) ==
    \E mid \in {Step(Current, capacity, PutCall(key, value))} :
        \E to \in {Step(mid, capacity, GetCall(key))} : Return(mid, to)

\* lruCache.delete(key); lruCache.get(key)
DeleteGet(key) ==
    \E mid \in {Step(Current, capacity, DeleteCall(key))} :
        \E to \in {Step(mid, capacity, GetCall(key))} : Return(mid, to)

\* lruCache.delete(key); lruCache.delete(key)
DeleteDelete(key) ==
    \E mid \in {Step(Current, capacity, DeleteCall(key))} :
        \E to \in {Step(mid, capacity, DeleteCall(key))} : Return(mid, to)

Next ==
    \/ \E key \in Keys, value \in Values : Put(key, value)
    \/ \E key \in Keys : Get(key)
    \/ \E key \in Keys : Delete(key)
    \/ Reset
    \/ \E key \in Keys, value \in Values : PutGet(key, value)
    \/ \E key \in Keys : DeleteGet(key)
    \/ \E key \in Keys : DeleteDelete(key)

Spec == Init /\ [][Next]_vars

(***************************************************************************)
(* The caller of the README's usage: besides the calls, a for-of loop over *)
(* the cache.                                                              *)
(***************************************************************************)

\* for (const entry of lruCache) { ... }
ForOf ==
    \E to \in {Step(Current, capacity, ForOfCall)} : Return(Current, to)

NextIter ==
    \/ Next
    \/ ForOf

IterSpec == Init /\ [][NextIter]_vars

(***************************************************************************)
(* The caller that reads a key twice: besides the calls, two gets of one   *)
(* key back to back.                                                       *)
(***************************************************************************)

\* lruCache.get(key); lruCache.get(key)
GetGet(key) ==
    \E mid \in {Step(Current, capacity, GetCall(key))} :
        \E to \in {Step(mid, capacity, GetCall(key))} : Return(mid, to)

NextMru ==
    \/ Next
    \/ \E key \in Keys : GetGet(key)

MruSpec == Init /\ [][NextMru]_vars

(***************************************************************************)
(* The caller from before the construction: `new LruCache(given)` is a     *)
(* step of its own, and the calls follow if it has returned an instance.   *)
(***************************************************************************)

InitNew ==
    \E cap \in Numbers :
        /\ nodes = NoInstance.nodes
        /\ accessMap = NoInstance.accessMap
        /\ capacity = 0
        /\ given = cap
        /\ call = NoCall
        /\ ret = Undefined
        /\ err = NoError
        /\ lastUse = <<>>
        /\ pre = [nodes |-> NoInstance.nodes, accessMap |-> NoInstance.accessMap,
                  lastUse |-> <<>>, call |-> NoCall, ret |-> Undefined, err |-> NoError]
        /\ twin = NoTwin
        /\ since = {}
        /\ puts = <<>>
        /\ origin = NoOrigin
        /\ running = NoneRunning
        /\ cost = NoCost

\* There is a cache object.
Constructed ==
    head \in DOMAIN nodes

\* new LruCache(given)
Construct ==
    /\ call.op = "none"
    /\ \E s \in {constructor(given)} :
          /\ nodes' = s.nodes
          /\ accessMap' = s.accessMap
          /\ capacity' = IF s.err = NoError THEN given.n ELSE capacity
          /\ call' = NewCall
          /\ ret' = Undefined
          /\ err' = s.err
          /\ lastUse' = <<>>
          /\ pre' = Current
          /\ UNCHANGED <<twin, since, given, puts, origin, running, cost>>

NextNew ==
    \/ Construct
    \/ Constructed /\ Next

NewSpec == InitNew /\ [][NextNew]_vars

(***************************************************************************)
(* The caller of 'Scenario #1' after its reset: the calls made from the    *)
(* first reset() on are also made on a cache constructed at that moment    *)
(* with the same capacity.                                                 *)
(***************************************************************************)

\* The second cache after call c on the first.
Twin(c) ==
    IF twin.on THEN [st |-> Step(twin.st, capacity, c), on |-> TRUE]
    ELSE IF c.op = "reset" THEN [st |-> New(Integer(capacity)), on |-> TRUE]
    ELSE twin

OnBoth(c) ==
    \E to \in {Step(Current, capacity, c)} :
        Observe(Current, to) /\ twin' = Twin(c) /\ UNCHANGED <<since, puts, origin, running, cost>>

PutOnBoth(key, value) == OnBoth(PutCall(key, value))
GetOnBoth(key) == OnBoth(GetCall(key))
DeleteOnBoth(key) == OnBoth(DeleteCall(key))
ResetOnBoth == OnBoth(ResetCall)

NextOnBoth ==
    \/ \E key \in Keys, value \in Values : PutOnBoth(key, value)
    \/ \E key \in Keys : GetOnBoth(key)
    \/ \E key \in Keys : DeleteOnBoth(key)
    \/ ResetOnBoth

ResetSpec == Init /\ [][NextOnBoth]_vars

(***************************************************************************)
(* The caller of "'Put' null Key": puts and gets only, the key null among  *)
(* the keys, with a record of the keys stored since null was last used.    *)
(***************************************************************************)

\* The record after call c.
Since(c) ==
    IF c.key = Null /\ IsUse(c, accessMap) THEN {Null}
    ELSE IF c.op = "put" /\ IsUse(c, accessMap) /\ Null \in since THEN since \cup {c.key}
    ELSE since

Counting(c) ==
    \E to \in {Step(Current, capacity, c)} :
        Observe(Current, to) /\ since' = Since(c) /\ UNCHANGED <<twin, puts, origin, running, cost>>

PutCounting(key, value) == Counting(PutCall(key, value))
GetCounting(key) == Counting(GetCall(key))

NextCounting ==
    \/ \E key \in Keys, value \in Values : PutCounting(key, value)
    \/ \E key \in Keys : GetCounting(key)

NullSpec == Init /\ [][NextCounting]_vars

(***************************************************************************)
(* The caller of "Unordered Discard Decision + 'Put' as Update" in its     *)
(* first lines: a new cache is given puts of keys not put before, with     *)
(* values other than undefined.                                            *)
(***************************************************************************)

\* lruCache.put(key, value), key not put before
PutAnother(key, value) ==
    /\ key # Undefined /\ value # Undefined
    /\ \A i \in 1..Len(puts) : puts[i] # key
    /\ \E to \in {Step(Current, capacity, PutCall(key, value))} :
          /\ Observe(Current, to) /\ puts' = Append(puts, key)
             /\ UNCHANGED <<twin, since, origin, running, cost>>

NextPuts ==
    \E key \in Keys, value \in Values : PutAnother(key, value)

PutsSpec == Init /\ [][NextPuts]_vars

(***************************************************************************)
(* The caller of "Consecutive 'Put' and 'Delete'": calls one at a time,    *)
(* and put(key, value); delete(key) back to back, with a record of the     *)
(* state the pair started in.                                              *)
(***************************************************************************)

Alone(c) ==
    \E to \in {Step(Current, capacity, c)} :
        Observe(Current, to) /\ origin' = NoOrigin
                             /\ UNCHANGED <<twin, since, puts, running, cost>>

PutAlone(key, value) == Alone(PutCall(key, value))
GetAlone(key) == Alone(GetCall(key))
DeleteAlone(key) == Alone(DeleteCall(key))
ResetAlone == Alone(ResetCall)

\* lruCache.put(key, value); lruCache.delete(key)
PutDelete(key, value) ==
    \E mid \in {Step(Current, capacity, PutCall(key, value))} :
        \E to \in {Step(mid, capacity, DeleteCall(key))} :
            /\ Observe(mid, to)
            /\ origin' = [st |-> Current, on |-> TRUE]
            /\ UNCHANGED <<twin, since, puts, running, cost>>

NextInverse ==
    \/ \E key \in Keys, value \in Values : PutAlone(key, value)
    \/ \E key \in Keys : GetAlone(key)
    \/ \E key \in Keys : DeleteAlone(key)
    \/ ResetAlone
    \/ \E key \in Keys, value \in Values : PutDelete(key, value)

InverseSpec == Init /\ [][NextInverse]_vars

(***************************************************************************)
(* Two callers on one cache without a lock.  A call of put or delete is    *)
(* made of steps, one per test and per mutation of the Access Map or of    *)
(* the list; a step of one caller can come between two steps of the other. *)
(* unlink and link each run as one step: an interleaving of these steps is *)
(* also one of the single pointer assignments, so a state reached here is  *)
(* reached there.  Keys and values are not undefined.  A caller starts a   *)
(* call while no two calls have overlapped; after the first two calls that *)
(* overlap have ended, the callers stop.  A thrown error ends the call.    *)
(* The runtime collects once no caller is in a call.                       *)
(***************************************************************************)

RaceKeys == Keys \ {Undefined}
RaceValues == {"v1"}

\* No caller is in a call.
Quiet ==
    \A t \in Callers : running.by[t].pc = "idle"

\* A step of caller t has left the cache as s and the caller as th.
Commit(t, s, th) ==
    \E by \in {[running.by EXCEPT ![t] = IF s.err # NoError THEN Idle ELSE th]} :
        /\ nodes' = IF \A u \in Callers : by[u].pc = "idle"
                    THEN Collect(s).nodes ELSE s.nodes
        /\ accessMap' = s.accessMap
        /\ err' = IF s.err # NoError THEN s.err ELSE err
        /\ running' = [serial |-> running.serial
                                    /\ Cardinality({u \in Callers : by[u].pc # "idle"}) <= 1,
                       by |-> by]
        /\ cost' = IF ~cost.on THEN cost
                   ELSE IF running.by[t].pc = "idle"
                        THEN [on |-> TRUE, op |-> th.pc, size |-> size(s), steps |-> 0]
                   ELSE [cost EXCEPT !.steps = @ + 1]
        /\ UNCHANGED <<capacity, call, ret, lastUse, pre, twin, since, given, puts, origin>>

\* Caller t calls put(key, value).
PutBegin(t, key, value) ==
    /\ running.serial /\ running.by[t].pc = "idle"
    /\ Commit(t, Machine(Current), [Idle EXCEPT !.key = key, !.value = value, !.pc = "put"])

\* if (this.accessMap.has(key)): const node = this.accessMap.get(key);
\* else: const newNode = new LruCacheNode(key, value)
PutHas(t) ==
    /\ running.by[t].pc = "put"
    /\ \E th \in {running.by[t]}, s \in {Machine(Current)} :
          IF th.key \in DOMAIN s.accessMap
          THEN Commit(t, s, [th EXCEPT !.node = s.accessMap[th.key], !.pc = "value"])
          ELSE \E newNode \in {NewRef(s.nodes, th.key)} :
                  Commit(t, [s EXCEPT !.nodes = (newNode :> LruCacheNode(th.key, th.value))
                                                 @@ s.nodes],
                         [th EXCEPT !.node = newNode, !.pc = "room"])

\* node.value = value
PutValue(t) ==
    /\ running.by[t].pc = "value"
    /\ \E th \in {running.by[t]}, s \in {Machine(Current)} :
          Commit(t, [s EXCEPT !.nodes[th.node].value = th.value], [th EXCEPT !.pc = "move"])

\* moveNodeToHead(node): if (this.firstNode !== node) this.unlink(node)
PutMove(t) ==
    /\ running.by[t].pc = "move"
    /\ \E th \in {running.by[t]}, s \in {Machine(Current)} :
          IF firstNode(s) # th.node
          THEN Commit(t, unlink(s, th.node), [th EXCEPT !.pc = "link"])
          ELSE Commit(t, s, Idle)

\* this.accessMap.size < this.capacity
PutRoom(t) ==
    /\ running.by[t].pc = "room"
    /\ \E th \in {running.by[t]}, s \in {Machine(Current)} :
          Commit(t, s, [th EXCEPT !.pc = IF size(s) < capacity THEN "set" ELSE "discard"])

\* discardLeastRecentlyUsed: const nodeTobeRemoved = this.unlinkFromTail()
PutDiscard(t) ==
    /\ running.by[t].pc = "discard"
    /\ \E th \in {running.by[t]}, s \in {unlinkFromTail(Machine(Current))} :
          Commit(t, s, [th EXCEPT !.removed = s.ret, !.pc = "forget"])

\* discardLeastRecentlyUsed: the returned test and
\* this.accessMap.delete(nodeTobeRemoved.key); put throws if it is false.
PutForget(t) ==
    /\ running.by[t].pc = "forget"
    /\ \E th \in {running.by[t]}, s \in {Machine(Current)} :
          IF th.removed = Undefined THEN Commit(t, Throw(s, ErrNotAdded), Idle)
          ELSE IF s.nodes[th.removed].key \notin DOMAIN s.accessMap
               THEN Commit(t, Throw(s, ErrNotAdded), Idle)
          ELSE \E key \in {s.nodes[th.removed].key} :
                  Commit(t, [s EXCEPT !.accessMap =
                                 [k \in DOMAIN s.accessMap \ {key} |-> s.accessMap[k]]],
                         [th EXCEPT !.pc = "set"])

\* this.accessMap.set(key, newNode)
PutSet(t) ==
    /\ running.by[t].pc = "set"
    /\ \E th \in {running.by[t]}, s \in {Machine(Current)} :
          Commit(t, [s EXCEPT !.accessMap = (th.key :> th.node) @@ s.accessMap],
                 [th EXCEPT !.pc = "link"])

\* this.linkToHead(node), the last step of put on either branch
PutLink(t) ==
    /\ running.by[t].pc = "link"
    /\ Commit(t, linkToHead(Machine(Current), running.by[t].node), Idle)

\* Caller t calls delete(key).
DeleteBegin(t, key) ==
    /\ running.serial /\ running.by[t].pc = "idle"
    /\ Commit(t, Machine(Current), [Idle EXCEPT !.key = key, !.pc = "delete"])

\* const node = this.accessMap.get(key); if (node !== undefined)
DeleteFind(t) ==
    /\ running.by[t].pc = "delete"
    /\ \E th \in {running.by[t]}, s \in {Machine(Current)} :
          IF th.key \in DOMAIN s.accessMap
          THEN Commit(t, s, [th EXCEPT !.node = s.accessMap[th.key], !.pc = "unlink"])
          ELSE Commit(t, s, Idle)

\* this.unlink(node)
DeleteUnlink(t) ==
    /\ running.by[t].pc = "unlink"
    /\ Commit(t, unlink(Machine(Current), running.by[t].node),
              [running.by[t] EXCEPT !.pc = "remove"])

\* this.accessMap.delete(key); return node.value
DeleteRemove(t) ==
    /\ running.by[t].pc = "remove"
    /\ \E th \in {running.by[t]}, s \in {Machine(Current)} :
          Commit(t, [s EXCEPT !.accessMap =
                         [k \in DOMAIN s.accessMap \ {th.key} |-> s.accessMap[k]]],
                 Idle)

NextRace ==
    \/ \E t \in Callers, key \in RaceKeys, value \in RaceValues : PutBegin(t, key, value)
    \/ \E t \in Callers : PutHas(t)
    \/ \E t \in Callers : PutValue(t)
    \/ \E t \in Callers : PutMove(t)
    \/ \E t \in Callers : PutRoom(t)
    \/ \E t \in Callers : PutDiscard(t)
    \/ \E t \in Callers : PutForget(t)
    \/ \E t \in Callers : PutSet(t)
    \/ \E t \in Callers : PutLink(t)
    \/ \E t \in Callers, key \in RaceKeys : DeleteBegin(t, key)
    \/ \E t \in Callers : DeleteFind(t)
    \/ \E t \in Callers : DeleteUnlink(t)
    \/ \E t \in Callers : DeleteRemove(t)

RaceSpec == Init /\ [][NextRace]_vars

(***************************************************************************)
(* One caller, its calls of put, get, delete and reset run statement by    *)
(* statement and counted: a call of link, unlink or initListLinks and an   *)
(* operation of the Map count as one statement each.  The runtime runs a   *)
(* call that has started to its end.                                       *)
(***************************************************************************)

\* The caller calls get(key).
GetBegin(t, key) ==
    /\ running.serial /\ running.by[t].pc = "idle"
    /\ Commit(t, Machine(Current), [Idle EXCEPT !.key = key, !.pc = "get"])

\* const node = this.accessMap.get(key); node !== undefined ? ... : undefined
GetFind(t) ==
    /\ running.by[t].pc = "get"
    /\ \E th \in {running.by[t]}, s \in {Machine(Current)} :
          IF th.key \in DOMAIN s.accessMap
          THEN Commit(t, s, [th EXCEPT !.node = s.accessMap[th.key], !.pc = "move"])
          ELSE Commit(t, s, Idle)

\* The caller calls reset().
ResetBegin(t) ==
    /\ running.serial /\ running.by[t].pc = "idle"
    /\ Commit(t, Machine(Current), [Idle EXCEPT !.pc = "reset"])

\* this.accessMap = new Map()
ResetMap(t) ==
    /\ running.by[t].pc = "reset"
    /\ Commit(t, [Machine(Current) EXCEPT !.accessMap = <<>>],
              [running.by[t] EXCEPT !.pc = "links"])

\* A reset that takes the entries off the list one by one before it relinks
\* head and tail.
ResetLinks_TearDown(t) ==
    /\ running.by[t].pc = "links"
    /\ \E s \in {Machine(Current)} :
          IF s.nodes[head].next # tail
          THEN Commit(t, unlink(s, s.nodes[head].next), running.by[t])
          ELSE Commit(t, initListLinks(s), Idle)

\* this.initListLinks()
ResetLinks(t) ==
    /\ running.by[t].pc = "links"
    /\ Commit(t, initListLinks(Machine(Current)), Idle)

InitStep ==
    \E cap \in Numbers :
        LET s == constructor(cap)
        IN  /\ s.err = NoError
            /\ nodes = s.nodes
            /\ accessMap = s.accessMap
            /\ capacity = cap.n
            /\ given = cap
            /\ call = NoCall
            /\ ret = Undefined
            /\ err = NoError
            /\ lastUse = <<>>
            /\ pre = [nodes |-> s.nodes, accessMap |-> s.accessMap, lastUse |-> <<>>,
                      call |-> NoCall, ret |-> Undefined, err |-> NoError]
            /\ twin = NoTwin
            /\ since = {}
            /\ puts = <<>>
            /\ origin = NoOrigin
            /\ running = NoneRunning
            /\ cost = [NoCost EXCEPT !.on = TRUE]

\* The next statement of the call in progress.
Statement ==
    \/ PutHas(1) \/ PutValue(1) \/ PutMove(1) \/ PutRoom(1) \/ PutDiscard(1)
    \/ PutForget(1) \/ PutSet(1) \/ PutLink(1)
    \/ GetFind(1)
    \/ DeleteFind(1) \/ DeleteUnlink(1) \/ DeleteRemove(1)
    \/ ResetMap(1) \/ ResetLinks(1)

NextStep ==
    \/ \E key \in RaceKeys, value \in RaceValues : PutBegin(1, key, value)
    \/ \E key \in RaceKeys : GetBegin(1, key)
    \/ \E key \in RaceKeys : DeleteBegin(1, key)
    \/ ResetBegin(1)
    \/ Statement

StepSpec == InitStep /\ [][NextStep]_vars /\ WF_vars(Statement)

(***************************************************************************)
(* What a caller can observe of a cache st.                                *)
(***************************************************************************)

\* The value stored for a present key.
ValueOf(st, k) ==
    st.nodes[st.accessMap[k]].value

\* The keys of the nodes from n up to tail, following next.
RECURSIVE Walk(_, _, _)
Walk(heap, n, fuel) ==
    IF n = tail \/ n = Undefined \/ n \notin DOMAIN heap \/ fuel = 0
    THEN <<>>
    ELSE <<heap[n].key>> \o Walk(heap, heap[n].next, fuel - 1)

\* The references of the nodes from n up to tail, following next.
RECURSIVE WalkNodes(_, _, _)
WalkNodes(heap, n, fuel) ==
    IF n = tail \/ n = Undefined \/ n \notin DOMAIN heap \/ fuel = 0
    THEN <<>>
    ELSE <<n>> \o WalkNodes(heap, heap[n].next, fuel - 1)

\* The references of the nodes from n down to head, following previous.
RECURSIVE WalkBack(_, _, _)
WalkBack(heap, n, fuel) ==
    IF n = head \/ n = Undefined \/ n \notin DOMAIN heap \/ fuel = 0
    THEN <<>>
    ELSE <<n>> \o WalkBack(heap, heap[n].previous, fuel - 1)

\* The nodes between head and tail, from head.next on.
ListNodes(st) ==
    WalkNodes(st.nodes, st.nodes[head].next, Cardinality(DOMAIN st.nodes))

\* The recency order: the keys from the node after head to the one before tail.
Order(st) ==
    Walk(st.nodes, st.nodes[head].next, Cardinality(DOMAIN st.nodes))

\* The key of the node at the LRU end, tail.previous.
LruKey(st) ==
    st.nodes[st.nodes[tail].previous].key

\* What get(k) would return if it were the next call on st.
GetReturns(st, k) ==
    get(Machine(st), k).ret

\* The last call was a put that stores: neither key nor value is undefined.
StoringPut ==
    call.op = "put" /\ call.key # Undefined /\ call.value # Undefined

\* ... of a key that was not present, into a full cache.
FullInsert ==
    StoringPut /\ call.key \notin DOMAIN pre.accessMap /\ size(pre) = capacity

\* Every key but those in `except` is present as before, with its value.
OthersKept(except) ==
    \A k \in DOMAIN pre.accessMap \ except :
        k \in DOMAIN accessMap /\ ValueOf(Current, k) = ValueOf(pre, k)

\* The last call left the cache exactly as it found it.
Untouched ==
    nodes = pre.nodes /\ accessMap = pre.accessMap

(***************************************************************************)
(* The claims.                                                             *)
(***************************************************************************)

\* C1: in every state reachable from a constructed cache by put, get, delete
\* and reset calls, 0 <= size <= capacity.
CapacityBound ==
    0 <= size(Current) /\ size(Current) <= capacity

\* A new key has been put into a full cache of capacity 2.
CapacityBoundWitness ==
    FullInsert /\ capacity = 2 /\ err = NoError /\ size(Current) = 2

\* C2: a put of an absent key with a value other than undefined into a full
\* cache removes exactly the key of the node at tail.previous; every other
\* key is still present with its value, the new key is present, and size is
\* still the capacity.
EvictionLaw ==
    FullInsert =>
        /\ err = NoError
        /\ LruKey(pre) \in DOMAIN pre.accessMap
        /\ DOMAIN accessMap = (DOMAIN pre.accessMap \ {LruKey(pre)}) \cup {call.key}
        /\ OthersKept({LruKey(pre)})
        /\ ValueOf(Current, call.key) = call.value
        /\ \A i \in 1..Len(Order(Current)) : Order(Current)[i] # LruKey(pre)
        /\ size(Current) = capacity

\* A full cache of capacity 3 has evicted its LRU key for a new one.
EvictionLawWitness ==
    /\ FullInsert /\ capacity = 3 /\ err = NoError
    /\ LruKey(pre) \notin DOMAIN accessMap
    /\ call.key \in DOMAIN accessMap

\* The keys of st from head to tail are its present keys, newest use first.
SortedByLastUse(st) ==
    LET ks == Order(st)
    IN  /\ Len(ks) = Cardinality(DOMAIN st.accessMap)
        /\ {ks[i] : i \in 1..Len(ks)} = DOMAIN st.accessMap
        /\ \A i, j \in 1..Len(ks) : i < j => st.lastUse[ks[i]] > st.lastUse[ks[j]]

\* C3: the list order from head to tail is always the present keys sorted by
\* time of last use, newest first, and the key a put of a new key into a full
\* cache evicts is the present key whose last use is the oldest.
StrictRecency ==
    /\ SortedByLastUse(Current)
    /\ FullInsert =>
        /\ DOMAIN pre.accessMap \ DOMAIN accessMap # {}
        /\ \A e \in DOMAIN pre.accessMap \ DOMAIN accessMap :
              \A k \in DOMAIN pre.accessMap : pre.lastUse[e] <= pre.lastUse[k]

\* A full cache of capacity 3 has evicted, for a new key, the key at the tail
\* end of its list, the one of its three keys with the oldest last use.
StrictRecencyWitness ==
    /\ FullInsert /\ capacity = 3 /\ err = NoError
    /\ \E e \in DOMAIN pre.accessMap \ DOMAIN accessMap :
          pre.lastUse[e] = 1 /\ Order(pre)[3] = e
    /\ Order(Current)[1] = call.key /\ lastUse[call.key] = 3

GetHit ==
    (call.op = "get" /\ call.key \in DOMAIN pre.accessMap) =>
        /\ err = NoError
        /\ ret = ValueOf(pre, call.key)
        /\ DOMAIN accessMap = DOMAIN pre.accessMap
        /\ OthersKept({})
        /\ size(Current) = size(pre)
        /\ nodes[head].next = accessMap[call.key]
        /\ Order(Current)[1] = call.key

\* A get has hit the key at the LRU end of a cache holding 3 entries.
GetHitWitness ==
    /\ call.op = "get" /\ call.key \in DOMAIN pre.accessMap
    /\ size(pre) = 3 /\ LruKey(pre) = call.key
    /\ Order(Current)[1] = call.key

\* C6: put(k, v) on a present key with v not undefined replaces the value of
\* k, makes k the first node after head and evicts nothing: size and the
\* present keys are unchanged and every other key keeps its value, also in a
\* full cache.
PutUpdate ==
    (StoringPut /\ call.key \in DOMAIN pre.accessMap) =>
        /\ err = NoError
        /\ ret = Undefined
        /\ DOMAIN accessMap = DOMAIN pre.accessMap
        /\ OthersKept({call.key})
        /\ ValueOf(Current, call.key) = call.value
        /\ size(Current) = size(pre)
        /\ nodes[head].next = accessMap[call.key]
        /\ Order(Current)[1] = call.key
        /\ Len(Order(Current)) = size(pre)

\* A put has replaced the value of the LRU key of a full cache of capacity 2.
PutUpdateWitness ==
    /\ StoringPut /\ call.key \in DOMAIN pre.accessMap
    /\ capacity = 2 /\ size(pre) = 2 /\ LruKey(pre) = call.key
    /\ ValueOf(pre, call.key) # call.value
    /\ ValueOf(Current, call.key) = call.value

\* C7: put(k, v) of an absent key with v not undefined into a cache with room
\* evicts nothing: every key stays present with its value, k becomes the
\* first node after head, and size grows by one.
PutNew ==
    (StoringPut /\ call.key \notin DOMAIN pre.accessMap /\ size(pre) < capacity) =>
        /\ err = NoError
        /\ ret = Undefined
        /\ DOMAIN accessMap = DOMAIN pre.accessMap \cup {call.key}
        /\ OthersKept({})
        /\ ValueOf(Current, call.key) = call.value
        /\ size(Current) = size(pre) + 1
        /\ nodes[head].next = accessMap[call.key]
        /\ Order(Current) = <<call.key>> \o Order(pre)

\* A third key has been put into a cache of capacity 3 holding two.
PutNewWitness ==
    /\ StoringPut /\ call.key \notin DOMAIN pre.accessMap
    /\ capacity = 3 /\ size(pre) = 2 /\ size(Current) = 3

\* C8: get(k) of a key that is not present, undefined included, returns
\* undefined, throws nothing and leaves size, keys, values and recency order
\* as they were.
GetMiss ==
    (call.op = "get" /\ call.key \notin DOMAIN pre.accessMap) =>
        /\ ret = Undefined
        /\ err = NoError
        /\ Untouched
        /\ Order(Current) = Order(pre)

\* get(undefined) has missed on a cache holding two entries.
GetMissWitness ==
    /\ call.op = "get" /\ call.key = Undefined
    /\ size(pre) = 2 /\ ret = Undefined

\* C9: delete(k) on a present key returns the stored value, removes k from
\* the Access Map and the list, so that a get(k) right after returns
\* undefined, lowers size by one and leaves every other key with its value.
DeleteHit ==
    /\ (call.op = "delete" /\ call.key \in DOMAIN pre.accessMap) =>
          /\ err = NoError
          /\ ret = ValueOf(pre, call.key)
          /\ DOMAIN accessMap = DOMAIN pre.accessMap \ {call.key}
          /\ OthersKept({call.key})
          /\ size(Current) = size(pre) - 1
          /\ pre.accessMap[call.key] \notin DOMAIN nodes
          /\ \A i \in 1..Len(Order(Current)) : Order(Current)[i] # call.key
          /\ Len(Order(Current)) = Len(Order(pre)) - 1
    /\ (call.op = "get" /\ pre.call.op = "delete" /\ pre.call.key = call.key) =>
          /\ ret = Undefined
          /\ err = NoError
          /\ call.key \notin DOMAIN accessMap

\* delete(k) has returned the stored null and the get(k) after it undefined,
\* with another entry still cached.
DeleteHitWitness ==
    /\ call.op = "get" /\ pre.call.op = "delete" /\ pre.call.key = call.key
    /\ pre.ret = Null /\ ret = Undefined
    /\ size(Current) >= 1

\* C10: delete(k) of a key that is not present returns undefined, throws
\* nothing and changes neither size, keys, values nor recency order; a second
\* delete(k) right after a delete(k) is such a call.
DeleteMiss ==
    /\ (call.op = "delete" /\ call.key \notin DOMAIN pre.accessMap) =>
          /\ ret = Undefined
          /\ err = NoError
          /\ Untouched
          /\ Order(Current) = Order(pre)
    /\ (call.op = "delete" /\ pre.call.op = "delete" /\ pre.call.key = call.key) =>
          call.key \notin DOMAIN pre.accessMap

\* A delete(k) that removed an entry has been followed by a second delete(k),
\* which returned undefined and left the remaining entries alone.
DeleteMissWitness ==
    /\ call.op = "delete" /\ pre.call.op = "delete" /\ pre.call.key = call.key
    /\ pre.ret # Undefined /\ ret = Undefined
    /\ size(Current) >= 1 /\ Untouched

\* C11: right after reset(), whatever the cache held, size is 0, isEmpty() is
\* true, head.next is tail, tail.previous is head, no key is left in the list
\* and get(k) returns undefined for every key k.
ResetEmpties ==
    call.op = "reset" =>
        /\ err = NoError
        /\ ret = Undefined
        /\ size(Current) = 0
        /\ isEmpty(Current)
        /\ nodes[head].next = tail
        /\ nodes[tail].previous = head
        /\ Order(Current) = <<>>
        /\ \A k \in Keys : GetReturns(Current, k) = Undefined

\* reset() has emptied a full cache of capacity 3.
ResetEmptiesWitness ==
    /\ call.op = "reset" /\ capacity = 3 /\ size(pre) = 3
    /\ size(Current) = 0 /\ nodes[head].next = tail

\* C12: from the first reset() on, whatever the cache held then, every call
\* returns or throws what the same call returns or throws on a cache newly
\* constructed at that reset and given the same calls since, and leaves the
\* same keys, values, recency order and size; the objects the cache reaches
\* are those the new cache reaches, none of them a node cached before the
\* reset, and right after a reset only head and tail are reachable.
ResetAsNew ==
    /\ twin.on =>
          /\ ret = twin.st.ret
          /\ err = twin.st.err
          /\ DOMAIN accessMap = DOMAIN twin.st.accessMap
          /\ \A k \in DOMAIN accessMap : ValueOf(Current, k) = ValueOf(twin.st, k)
          /\ Order(Current) = Order(twin.st)
          /\ size(Current) = size(twin.st)
          /\ nodes = twin.st.nodes
          /\ accessMap = twin.st.accessMap
    /\ call.op = "reset" => DOMAIN nodes = {head, tail}

\* After a reset, a cache of capacity 2 has been filled again and has evicted
\* its LRU key for a third, as the new cache did.
ResetAsNewWitness ==
    /\ twin.on /\ capacity = 2 /\ FullInsert /\ err = NoError
    /\ Order(Current) = Order(twin.st) /\ Len(Order(Current)) = 2

\* C13: put(undefined, v) throws for every value v, undefined included, in
\* every reachable state, and changes nothing: size, keys, values, recency
\* order and times of last use are as before, and get(undefined) returns
\* undefined afterwards.
RejectUndefinedKey ==
    /\ (call.op = "put" /\ call.key = Undefined) =>
          /\ err = ErrKey
          /\ Untouched
          /\ size(Current) = size(pre)
          /\ Order(Current) = Order(pre)
          /\ lastUse = pre.lastUse
          /\ Undefined \notin DOMAIN accessMap
          /\ GetReturns(Current, Undefined) = Undefined
    /\ (call.op = "get" /\ call.key = Undefined /\ pre.call.op = "put") =>
          /\ pre.err = ErrKey
          /\ err = NoError
          /\ ret = Undefined

\* put(undefined, undefined) has thrown on a full cache of capacity 2.
RejectUndefinedKeyWitness ==
    /\ call.op = "put" /\ call.key = Undefined /\ call.value = Undefined
    /\ err = ErrKey /\ capacity = 2 /\ size(pre) = 2 /\ size(Current) = 2

\* C14: put(k, undefined) with k not undefined returns without an error and
\* changes nothing, in every reachable state, a full cache included: no entry
\* for k is created, an existing entry for k keeps its value and its place,
\* nothing is evicted, and the times of last use are as before.
UndefinedValueNoOp ==
    (call.op = "put" /\ call.key # Undefined /\ call.value = Undefined) =>
        /\ err = NoError
        /\ ret = Undefined
        /\ Untouched
        /\ DOMAIN accessMap = DOMAIN pre.accessMap
        /\ OthersKept({})
        /\ size(Current) = size(pre)
        /\ Order(Current) = Order(pre)
        /\ lastUse = pre.lastUse

\* put(k, undefined) has left alone a full cache of capacity 2 in which k is
\* the LRU key.
UndefinedValueNoOpWitness ==
    /\ call.op = "put" /\ call.key # Undefined /\ call.value = Undefined
    /\ capacity = 2 /\ size(pre) = 2 /\ LruKey(pre) = call.key
    /\ LruKey(Current) = call.key /\ ValueOf(Current, call.key) # Undefined

\* C15: get(k) returns undefined if and only if k is not present, for the
\* last call and for every key as the next call, in every reachable state;
\* a present key whose stored value is null yields null; no present key has
\* the value undefined.
HitMissDistinct ==
    /\ call.op = "get" =>
          /\ err = NoError
          /\ ret = Undefined <=> call.key \notin DOMAIN pre.accessMap
    /\ (call.op = "get" /\ call.key \in DOMAIN pre.accessMap) =>
          (ValueOf(pre, call.key) = Null => ret = Null)
    /\ \A k \in Keys :
          GetReturns(Current, k) = Undefined <=> k \notin DOMAIN accessMap
    /\ \A k \in DOMAIN accessMap : ValueOf(Current, k) # Undefined

\* get(k) has returned null for a key stored with the value null, while
\* get of an absent key returns undefined.
HitMissDistinctWitness ==
    /\ call.op = "get" /\ call.key \in DOMAIN pre.accessMap
    /\ ValueOf(pre, call.key) = Null /\ ret = Null
    /\ \E k \in Keys \ {Undefined} :
          k \notin DOMAIN accessMap /\ GetReturns(Current, k) = Undefined

ValidCapacity(x) ==
    x.kind = "integer" /\ x.n >= 1

Reverse(s) ==
    [i \in 1..Len(s) |-> s[Len(s) + 1 - i]]

\* C18: after put(k1, _), ..., put(kN, _) on a new cache, with distinct keys
\* other than undefined, values other than undefined and N <= capacity, the
\* keys from head.next to tail are kN, ..., k1, and every put has returned
\* without an error.
RecencyLaw ==
    Len(puts) <= capacity =>
        /\ Order(Current) = Reverse(puts)
        /\ size(Current) = Len(puts)
        /\ err = NoError

\* Three keys have been put into a new cache of capacity 3.
RecencyLawWitness ==
    /\ capacity = 3 /\ Len(puts) = 3
    /\ Order(Current) = <<puts[3], puts[2], puts[1]>>

\* C19: after every public call, a key is in the Access Map if and only if
\* the walk from head.next to tail meets exactly one node with that key; the
\* Access Map maps the key to that node, and the node's key field is the key.
\* The walk ends at tail and meets no dummy node on the way.
IndexListAgree ==
    LET ns == ListNodes(Current)
    IN  /\ \A k \in Keys :
              k \in DOMAIN accessMap
                  <=> Cardinality({i \in 1..Len(ns) : nodes[ns[i]].key = k}) = 1
        /\ \A i \in 1..Len(ns) :
              /\ ns[i] \notin {head, tail}
              /\ nodes[ns[i]].key \in DOMAIN accessMap
              /\ accessMap[nodes[ns[i]].key] = ns[i]
        /\ \A k \in DOMAIN accessMap :
              /\ nodes[accessMap[k]].key = k
              /\ \E i \in 1..Len(ns) : ns[i] = accessMap[k]
        /\ \A i, j \in 1..Len(ns) : ns[i] = ns[j] => i = j
        /\ nodes[IF ns = <<>> THEN head ELSE ns[Len(ns)]].next = tail

\* A delete has taken the middle one of three entries out of both the Access
\* Map and the list.
IndexListAgreeWitness ==
    /\ call.op = "delete" /\ size(pre) = 3 /\ Order(pre)[2] = call.key
    /\ call.key \notin DOMAIN accessMap
    /\ Order(Current) = <<Order(pre)[1], Order(pre)[3]>>

\* C20: after every public call, size, the number of entries of the Access
\* Map, is the number of nodes met walking from head.next to tail, which are
\* all the nodes the cache still reaches besides head and tail; the cache is
\* empty exactly when head.next is tail, and exactly when tail.previous is head.
SizeCountsList ==
    /\ size(Current) = Len(ListNodes(Current))
    /\ size(Current) = Cardinality(DOMAIN nodes \ {head, tail})
    /\ isEmpty(Current) <=> nodes[head].next = tail
    /\ isEmpty(Current) <=> nodes[tail].previous = head

\* reset() has brought size and the list of a cache holding 2 entries to 0.
SizeCountsListWitness ==
    /\ call.op = "reset" /\ size(pre) = 2 /\ Len(ListNodes(pre)) = 2
    /\ size(Current) = 0 /\ Len(ListNodes(Current)) = 0

\* C21: in a cache of capacity 1, after a put(k, v) with v not undefined that
\* has returned without an error, whatever the calls before it, the cache
\* holds the entry (k, v) and no other: get(k) returns v, as the next call
\* and in the get(k) made right after, and get of every other key returns
\* undefined.
CapacityOne ==
    /\ (capacity = 1 /\ StoringPut /\ err = NoError) =>
          /\ DOMAIN accessMap = {call.key}
          /\ ValueOf(Current, call.key) = call.value
          /\ Order(Current) = <<call.key>>
          /\ \A k \in Keys :
                GetReturns(Current, k) = IF k = call.key THEN call.value ELSE Undefined
    /\ (/\ capacity = 1 /\ call.op = "get" /\ pre.call.op = "put"
        /\ pre.call.key # Undefined /\ pre.call.value # Undefined /\ pre.err = NoError) =>
          /\ ret = pre.call.value
          /\ DOMAIN accessMap = {call.key}

\* In a cache of capacity 1 holding one key, a put of another key has left
\* that key alone in the cache.
CapacityOneWitness ==
    /\ capacity = 1 /\ FullInsert /\ err = NoError
    /\ DOMAIN pre.accessMap # {call.key} /\ DOMAIN accessMap = {call.key}
    /\ \E k \in DOMAIN pre.accessMap : GetReturns(Current, k) = Undefined

\* C22: a for-of loop over the cache throws nothing, yields the present
\* (key, value) pairs once each from the MRU to the LRU one, and leaves the
\* recency order and the rest of the cache as they were.
Iteration ==
    call.op = "for-of" =>
        /\ err = NoError
        /\ ret = [i \in 1..Len(Order(pre)) |->
                    <<Order(pre)[i], ValueOf(pre, Order(pre)[i])>>]
        /\ Untouched
        /\ Order(Current) = Order(pre)
        /\ lastUse = pre.lastUse

\* C23: after every public call, isEmpty() is true exactly when size is 0,
\* exactly when head.next is tail, and exactly when tail.previous is head; the
\* three tests of emptiness never disagree.
IsEmptyAgrees ==
    /\ isEmpty(Current) <=> (size(Current) = 0)
    /\ (size(Current) = 0) <=> (nodes[head].next = tail)
    /\ (nodes[head].next = tail) <=> (nodes[tail].previous = head)
    /\ isEmpty(Current) <=> (firstNode(Current) = Undefined)
    /\ isEmpty(Current) <=> (lastNode(Current) = Undefined)

\* A delete has taken the only entry out: the cache is empty by all three tests.
IsEmptyAgreesWitness ==
    /\ call.op = "delete" /\ ~isEmpty(pre) /\ size(pre) = 1
    /\ pre.nodes[head].next # tail /\ pre.nodes[tail].previous # head
    /\ isEmpty(Current) /\ nodes[head].next = tail /\ nodes[tail].previous = head

\* C24: once the constructor has returned an instance, capacity is the integer
\* it was given, and no put, get, delete or reset, whether it returns or
\* throws, changes it.
CapacityImmutable ==
    /\ [](Constructed => (IsInteger(given) /\ capacity = given.n))
    /\ [][Constructed => capacity' = capacity]_vars

\* A put with an undefined key has thrown on a full cache constructed with 2:
\* capacity is still 2.
CapacityImmutableWitness ==
    /\ call.op = "put" /\ err = ErrKey
    /\ given = Integer(2) /\ capacity = 2 /\ size(Current) = 2

\* C25: in every reachable state head.next and tail.previous are defined and
\* head.previous and tail.next are not; no node the Access Map holds is head
\* or tail, and tail.previous is not head unless the cache is empty, so
\* neither is ever handed to unlink; and no call, alone or the first of a
\* pair, has thrown the unlink error or the precondition error of linkToHead
\* or unlinkFromTail.
SentinelsPermanent ==
    /\ {head, tail} \subseteq DOMAIN nodes
    /\ nodes[head].next \in DOMAIN nodes /\ nodes[tail].previous \in DOMAIN nodes
    /\ nodes[head].next # head /\ nodes[tail].previous # tail
    /\ nodes[head].previous = Undefined /\ nodes[tail].next = Undefined
    /\ \A k \in DOMAIN accessMap : accessMap[k] \notin {head, tail}
    /\ ~isEmpty(Current) => (nodes[tail].previous # head /\ nodes[head].next # tail)
    /\ {err, pre.err} \cap {ErrUnlink, ErrHeadNext, ErrTailPrevious} = {}

\* A put into a full cache of capacity 1 has unlinked the node before tail and
\* linked a new one after head; head and tail are linked to it and to nothing
\* else.
SentinelsPermanentWitness ==
    /\ FullInsert /\ capacity = 1 /\ err = NoError
    /\ nodes[head].next = accessMap[call.key] /\ nodes[tail].previous = accessMap[call.key]
    /\ pre.nodes[head].next # nodes[head].next
    /\ nodes[head].previous = Undefined /\ nodes[tail].next = Undefined

\* C26: the only error a public call on a constructed cache throws, alone or
\* as the first of a pair, is that of put for the key undefined, thrown by
\* exactly those puts; discardLeastRecentlyUsed returned true in every put
\* that reached it, and would return true in every reachable state with
\* size >= capacity, so the 'has not been added' error is never thrown.
EvictionNeverFails ==
    /\ {err, pre.err} \subseteq {NoError, ErrKey}
    /\ (err = ErrKey) <=> (call.op = "put" /\ call.key = Undefined)
    /\ (pre.err = ErrKey) <=> (pre.call.op = "put" /\ pre.call.key = Undefined)
    /\ FullInsert =>
          LET s == discardLeastRecentlyUsed(Machine(pre))
          IN  s.err = NoError /\ s.ret = TRUE
    /\ size(Current) >= capacity =>
          LET s == discardLeastRecentlyUsed(Machine(Current))
          IN  s.err = NoError /\ s.ret = TRUE

\* A put into a full cache of capacity 2 has discarded the entry of the key
\* null and returned.
EvictionNeverFailsWitness ==
    /\ FullInsert /\ capacity = 2 /\ err = NoError
    /\ LruKey(pre) = Null /\ Null \notin DOMAIN accessMap
    /\ call.key \in DOMAIN accessMap

\* C27: after every public call the list is a well-formed doubly linked
\* chain: head and every node met walking next from head has a next whose
\* previous is that node; the walk meets size nodes, no node twice, and then
\* tail (size + 1 steps); the walk from tail.previous following previous
\* meets the same nodes in the reverse order and then head.
WellFormedChain ==
    LET fwd == ListNodes(Current)
        bwd == WalkBack(nodes, nodes[tail].previous, Cardinality(DOMAIN nodes))
        n == Len(fwd)
    IN  /\ \A m \in {head} \cup {fwd[i] : i \in 1..n} :
              nodes[m].next \in DOMAIN nodes /\ nodes[nodes[m].next].previous = m
        /\ n = size(Current)
        /\ \A i, j \in 1..n : i # j => fwd[i] # fwd[j]
        /\ \A i \in 1..n : fwd[i] \notin {head, tail}
        /\ (IF n = 0 THEN nodes[head].next ELSE nodes[fwd[n]].next) = tail
        /\ Len(bwd) = n
        /\ \A i \in 1..n : bwd[i] = fwd[n + 1 - i]
        /\ (IF n = 0 THEN nodes[tail].previous ELSE nodes[bwd[n]].previous) = head

\* A get has moved the last of three nodes to the front, and the chain of the
\* three reads the same from both ends.
WellFormedChainWitness ==
    /\ call.op = "get" /\ size(pre) = 3 /\ LruKey(pre) = call.key
    /\ Len(ListNodes(Current)) = 3
    /\ ListNodes(Current)[1] = accessMap[call.key]
    /\ WalkBack(nodes, nodes[tail].previous, 5) = Reverse(ListNodes(Current))

\* C28: a put, get or delete moves, adds or removes only the key it is given
\* and, for a put into a full cache, the key it evicts: the other keys stay,
\* with their values, in the order they were in, both in the list and by
\* time of last use.  After a reset no key is left to compare.
OrderPreserved ==
    LET evicted == IF FullInsert THEN {LruKey(pre)} ELSE {}
        kept == (DOMAIN pre.accessMap \cap DOMAIN accessMap) \ {call.key}
    IN  /\ SelectSeq(Order(Current), LAMBDA k : k \in kept)
              = SelectSeq(Order(pre), LAMBDA k : k \in kept)
        /\ \A a, b \in kept : (lastUse[a] < lastUse[b]) <=> (pre.lastUse[a] < pre.lastUse[b])
        /\ call.op = "reset" => kept = {}
        /\ call.op \in {"put", "get", "delete"} =>
              /\ (DOMAIN pre.accessMap \ DOMAIN accessMap) \subseteq ({call.key} \cup evicted)
              /\ (DOMAIN accessMap \ DOMAIN pre.accessMap) \subseteq {call.key}
              /\ kept = DOMAIN pre.accessMap \ ({call.key} \cup evicted)
              /\ SelectSeq(Order(Current), LAMBDA k : k # call.key)
                    = SelectSeq(Order(pre), LAMBDA k : k \notin ({call.key} \cup evicted))
              /\ OthersKept({call.key} \cup evicted)

\* A get has moved the middle one of three keys to the front; the other two
\* follow it in the order they had.
OrderPreservedWitness ==
    /\ call.op = "get" /\ size(pre) = 3 /\ Order(pre)[2] = call.key
    /\ Order(Current) = <<Order(pre)[2], Order(pre)[1], Order(pre)[3]>>

\* C29: get(k) and put(k, v) of the key k of the first node after head call
\* neither unlink nor link and leave every pointer, the Access Map, the order
\* and the times of last use as they were, put storing v in the node unless v
\* is undefined; this holds of the last call made and of the call that could
\* be made next.  Of two gets of one key back to back the second returns what
\* the first returned and changes nothing.
MruStays ==
    /\ \A k \in DOMAIN accessMap : accessMap[k] = nodes[head].next =>
          /\ \E g \in {get(Machine(Current), k)} :
                /\ g.edits = 0 /\ g.err = NoError
                /\ g.nodes = nodes /\ g.accessMap = accessMap
          /\ \A v \in Values : \E p \in {put(Machine(Current), capacity, k, v)} :
                /\ p.edits = 0 /\ p.err = NoError
                /\ p.accessMap = accessMap
                /\ p.nodes = IF v = Undefined THEN nodes
                             ELSE [nodes EXCEPT ![accessMap[k]].value = v]
    /\ (/\ call.op \in {"get", "put"} /\ call.key \in DOMAIN pre.accessMap
        /\ pre.accessMap[call.key] = pre.nodes[head].next) =>
          /\ err = NoError
          /\ accessMap = pre.accessMap
          /\ nodes = IF call.op = "put" /\ call.value # Undefined
                     THEN [pre.nodes EXCEPT ![pre.accessMap[call.key]].value = call.value]
                     ELSE pre.nodes
          /\ Order(Current) = Order(pre)
          /\ lastUse = pre.lastUse
          /\ call.op = "get" => ret = ValueOf(pre, call.key)
    /\ (call.op = "get" /\ pre.call.op = "get" /\ pre.call.key = call.key) =>
          /\ ret = pre.ret
          /\ Untouched /\ lastUse = pre.lastUse
          /\ err = NoError /\ pre.err = NoError

\* The second of two gets of a key, which the first moved to the front of a
\* list of three, has returned the same value and moved nothing.
MruStaysWitness ==
    /\ call.op = "get" /\ pre.call.op = "get" /\ pre.call.key = call.key
    /\ size(Current) = 3 /\ Order(Current)[1] = call.key
    /\ ret = pre.ret /\ ret = ValueOf(Current, call.key)
    /\ get(Machine(pre), call.key).edits = 0

\* C30 as stated: after put(k, v); delete(k) with k not present and v not
\* undefined, delete has returned v; from a cache with size < capacity the
\* keys, their values, the order and the size are as before the put, and from
\* a full cache one entry is missing, that of the former LRU key.
PutDeleteInverseAnyKey ==
    (/\ origin.on /\ call.op = "delete" /\ pre.call.op = "put"
     /\ call.key \notin DOMAIN origin.st.accessMap
     /\ pre.call.value # Undefined) =>
        /\ ret = pre.call.value
        /\ IF size(origin.st) < capacity
           THEN /\ Order(Current) = Order(origin.st)
                /\ accessMap = origin.st.accessMap /\ nodes = origin.st.nodes
           ELSE /\ size(Current) = capacity - 1
                /\ Order(Current) = SubSeq(Order(origin.st), 1, capacity - 1)

\* C30, amended: the same for every key k other than undefined.  After
\* put(k, v); delete(k) with k not present, neither k nor v undefined, both
\* calls have returned without an error and delete has returned v.  From a
\* cache with size < capacity the present keys, their values, the order, the
\* size, the times of last use and every node and pointer are as before the
\* put; from a full cache the former LRU key is gone and the other keys are
\* as before, so that size is capacity - 1.
PutDeleteInverse ==
    (/\ origin.on /\ call.op = "delete" /\ pre.call.op = "put"
     /\ call.key \notin DOMAIN origin.st.accessMap
     /\ call.key # Undefined /\ pre.call.value # Undefined) =>
        /\ pre.err = NoError /\ err = NoError
        /\ ret = pre.call.value
        /\ call.key \in DOMAIN pre.accessMap /\ call.key \notin DOMAIN accessMap
        /\ IF size(origin.st) < capacity
           THEN /\ DOMAIN accessMap = DOMAIN origin.st.accessMap
                /\ \A k \in DOMAIN accessMap : ValueOf(Current, k) = ValueOf(origin.st, k)
                /\ Order(Current) = Order(origin.st)
                /\ size(Current) = size(origin.st)
                /\ lastUse = origin.st.lastUse
                /\ accessMap = origin.st.accessMap /\ nodes = origin.st.nodes
           ELSE /\ size(origin.st) = capacity /\ size(Current) = capacity - 1
                /\ DOMAIN accessMap = DOMAIN origin.st.accessMap \ {LruKey(origin.st)}
                /\ \A k \in DOMAIN accessMap : ValueOf(Current, k) = ValueOf(origin.st, k)
                /\ Order(Current) = SubSeq(Order(origin.st), 1, capacity - 1)

\* put(k, v); delete(k) on a cache of capacity 3 holding two other keys has
\* returned v and left the two as they were.
PutDeleteInverseWitness ==
    /\ origin.on /\ call.op = "delete" /\ pre.call.op = "put"
    /\ capacity = 3 /\ size(origin.st) = 2
    /\ call.key \notin DOMAIN origin.st.accessMap /\ call.key # Undefined
    /\ ret = pre.call.value /\ ret = "v1"
    /\ Order(Current) = Order(origin.st) /\ Len(Order(Current)) = 2

\* C31: in every reachable state every node between head and tail, and every
\* node the cache still reaches besides head and tail, has a key other than
\* undefined and a value other than undefined; the key of a node is the key
\* the Access Map holds it under; head and tail have neither key nor value,
\* and are the only nodes with an undefined key or value.
NoReservedMarker ==
    /\ \A i \in 1..Len(ListNodes(Current)) :
          /\ nodes[ListNodes(Current)[i]].key # Undefined
          /\ nodes[ListNodes(Current)[i]].value # Undefined
    /\ \A r \in DOMAIN nodes :
          (nodes[r].key = Undefined \/ nodes[r].value = Undefined) <=> r \in {head, tail}
    /\ \A r \in {head, tail} : nodes[r].key = Undefined /\ nodes[r].value = Undefined
    /\ \A k \in DOMAIN accessMap : nodes[accessMap[k]].key = k
    /\ Undefined \notin DOMAIN accessMap

\* A put has stored the key null with the value null next to another entry:
\* the first node after head has null, not undefined, as key and value.
NoReservedMarkerWitness ==
    /\ StoringPut /\ call.key = Null /\ call.value = Null /\ err = NoError
    /\ size(Current) = 2
    /\ nodes[nodes[head].next].key = Null /\ nodes[nodes[head].next].value = Null
    /\ nodes[nodes[tail].previous].key \notin {Undefined, Null}

====
